---- MODULE Spec2Model ----
\* Model of app/src/main/cpp/llama_android.cpp: the JNI binding of a llama.cpp
\* generation session and embedding session (create / query / generate /
\* generateStream / free).
EXTENDS Integers, Sequences, FiniteSets, TLC

\* ------------------------------------------------------------------ bounds
MaxCreates == 2       \* creation calls per behaviour
MaxTokens == 3        \* largest maxTokens argument

\* ------------------------------------------------------- program constants
AllLayers == 99

\* one wrapper address per creation call: operator new never runs out
Addr == 1..MaxCreates
Sessions == 1..MaxCreates
GpuLayerInputs == {-1, 0, 2}
CreateOps == {"initModel", "initModelWithGpu", "initEmbeddingModel"}
FreeOps == {"freeModel", "freeEmbeddingModel"}
Threads == {1, 2}
\* prompts and texts, each given as the token sequence llama_tokenize makes
\* of it (10 is the BOS token add_special inserts)
Prompts == {<<10, 11>>}

VARIABLES
    vulkan,               \* GGML_USE_VULKAN was defined at build time
    backendInits,         \* number of llama_backend_init() calls so far
    backendUp,            \* backend initialised and not freed since
    backend_initialized,  \* static flag of initEmbeddingModel
    heap,                 \* wrapper objects by address
    models,               \* llama_model of creation call k
    ctxs,                 \* llama_context of creation call k
    nCreates,             \* creation calls made
    call,                 \* the lifecycle call in progress / last returned
    gen,                  \* the generation call in progress / last returned
    peer,                 \* generateStream run in lock-step with gen (SpecPair)
    kv,                   \* decode memory of the context of creation call k
    thr                   \* threads inside initEmbeddingModel (SpecRace)

vars == <<vulkan, backendInits, backendUp, backend_initialized, heap, models,
          ctxs, nCreates, call, gen, peer, kv, thr>>

lifeVars == <<vulkan, backendInits, backendUp, backend_initialized, heap,
              models, ctxs, nCreates, call>>

\* ------------------------------------------------------------ wrapper heap
NoWrapper ==
    [state |-> "unused", kind |-> "none", k |-> 0, using_gpu |-> FALSE,
     gpu_layers |-> 0, dels |-> 0]

NoResource == [alloc |-> FALSE, rel |-> 0]

IsLive(r) == r.alloc /\ r.rel = 0

LiveModels == {k \in Sessions : IsLive(models[k])}
LiveCtxs == {k \in Sessions : IsLive(ctxs[k])}
LiveHandles == {a \in Addr : heap[a].state = "live"}

IdleCall ==
    [op |-> "none", pc |-> "idle", handle |-> 0, k |-> 0, useGpu |-> FALSE,
     gpuLayers |-> 0, resolved |-> 0, loads |-> 0, load1Ok |-> FALSE,
     load2Ok |-> FALSE, ctxOk |-> FALSE, ret |-> 0, stale |-> FALSE,
     uaf |-> FALSE]

IdleThread == [pc |-> "idle", inited |-> FALSE, ret |-> 0]

\* A new call starts when none is running. Once a call has dereferenced a
\* deleted wrapper the state of the process is undefined and no further call
\* is followed.
CallIdle == call.pc \in {"idle", "done"} /\ ~call.uaf

\* detect_vulkan_available(): a compile-time switch
detect_vulkan_available == vulkan

\* llama_load_model_from_file: the model of call k now exists
LoadModel(ms, k) == [ms EXCEPT ![k] = [alloc |-> TRUE, rel |-> 0]]

\* llama_free_model / llama_free on resource k
Release(rs, k) == [rs EXCEPT ![k].rel = @ + 1]

\* new llama_context_wrapper() / new embedding_context_wrapper(): the
\* allocator returns any address that holds no live wrapper, so the address of
\* a deleted wrapper can come back
NewWrapper(a, kind, k, using, layers) ==
    [heap EXCEPT ![a] = [state |-> "live", kind |-> kind, k |-> k,
                         using_gpu |-> using, gpu_layers |-> layers,
                         dels |-> 0]]

CanCreate == CallIdle /\ nCreates < MaxCreates

\* ------------------------------------------------------- session creation
\* llama_backend_init(): called unconditionally by initModel / initModelWithGpu
BackendInit ==
    /\ backendInits' = backendInits + 1
    /\ backendUp' = TRUE

\* ctx == nullptr branch of initModel: llama_free_model(model); return 0
InitModelCtxFailed(ms, k) == Release(ms, k)

\* initModel(modelPath, contextSize, threads); loadOk / ctxOk are the outcomes
\* of llama_load_model_from_file and llama_new_context_with_model, a the
\* address operator new returns
InitModel(loadOk, ctxOk, a) ==
    /\ CanCreate
    /\ heap[a].state # "live"
    /\ BackendInit
    /\ nCreates' = nCreates + 1
    /\ LET k == nCreates + 1
           c == [IdleCall EXCEPT !.op = "initModel", !.pc = "done", !.k = k,
                                 !.loads = 1, !.load1Ok = loadOk,
                                 !.ctxOk = loadOk /\ ctxOk]
       IN IF ~loadOk
          THEN /\ call' = c
               /\ UNCHANGED <<models, ctxs, heap>>
          ELSE IF ~ctxOk
          THEN /\ models' = InitModelCtxFailed(LoadModel(models, k), k)
               /\ call' = c
               /\ UNCHANGED <<ctxs, heap>>
          ELSE /\ models' = LoadModel(models, k)
               /\ ctxs' = LoadModel(ctxs, k)
               /\ heap' = NewWrapper(a, "gen", k, FALSE, 0)
               /\ call' = [c EXCEPT !.ret = a]
    /\ UNCHANGED <<vulkan, backend_initialized, gen, peer, kv, thr>>

\* the resolution without the detect_vulkan_available() test
ResolveLayers_Unprobed(useGpu, gpuLayers) ==
    IF useGpu
    THEN [gpu_available |-> TRUE,
          actual_gpu_layers |-> IF gpuLayers < 0 THEN AllLayers ELSE gpuLayers]
    ELSE [gpu_available |-> FALSE, actual_gpu_layers |-> 0]

\* GPU layer resolution of initModelWithGpu
ResolveLayers(useGpu, gpuLayers) ==
    IF useGpu /\ detect_vulkan_available
    THEN [gpu_available |-> TRUE,
          actual_gpu_layers |-> IF gpuLayers < 0 THEN AllLayers ELSE gpuLayers]
    ELSE [gpu_available |-> FALSE, actual_gpu_layers |-> 0]

\* condition of the CPU retry
NeedsFallback(loadOk, r) ==
    ~loadOk /\ r.gpu_available /\ r.actual_gpu_layers > 0

\* the retry without the reset of gpu_available / actual_gpu_layers
Fallback_KeepsLayers(r) == r

\* what the retry leaves in gpu_available / actual_gpu_layers
Fallback(r) == [gpu_available |-> FALSE, actual_gpu_layers |-> 0]

\* using_gpu taken from gpu_available alone
UsingGpu_AvailableOnly(r) == r.gpu_available

\* wrapper->using_gpu = gpu_available && (actual_gpu_layers > 0);
UsingGpu(r) == r.gpu_available /\ r.actual_gpu_layers > 0

\* ctx == nullptr branch of initModelWithGpu
InitModelWithGpuCtxFailed(ms, k) == Release(ms, k)

\* initModelWithGpu(modelPath, contextSize, threads, useGpu, gpuLayers);
\* load1Ok / load2Ok are the outcomes of the first load and of the retry
InitModelWithGpu(useGpu, gpuLayers, load1Ok, load2Ok, ctxOk, a) ==
    /\ CanCreate
    /\ heap[a].state # "live"
    /\ BackendInit
    /\ nCreates' = nCreates + 1
    /\ LET k == nCreates + 1
           r0 == ResolveLayers(useGpu, gpuLayers)
           retry == NeedsFallback(load1Ok, r0)
           r == IF retry THEN Fallback(r0) ELSE r0
           loaded == IF retry THEN load2Ok ELSE load1Ok
           c == [IdleCall EXCEPT !.op = "initModelWithGpu", !.pc = "done",
                                 !.k = k, !.useGpu = useGpu,
                                 !.gpuLayers = gpuLayers,
                                 !.resolved = r0.actual_gpu_layers,
                                 !.loads = IF retry THEN 2 ELSE 1,
                                 !.load1Ok = load1Ok,
                                 !.load2Ok = retry /\ load2Ok,
                                 !.ctxOk = loaded /\ ctxOk]
       IN IF ~loaded
          THEN /\ call' = c
               /\ UNCHANGED <<models, ctxs, heap>>
          ELSE IF ~ctxOk
          THEN /\ models' = InitModelWithGpuCtxFailed(LoadModel(models, k), k)
               /\ call' = c
               /\ UNCHANGED <<ctxs, heap>>
          ELSE /\ models' = LoadModel(models, k)
               /\ ctxs' = LoadModel(ctxs, k)
               /\ heap' = NewWrapper(a, "gen", k, UsingGpu(r),
                                     r.actual_gpu_layers)
               /\ call' = [c EXCEPT !.ret = a]
    /\ UNCHANGED <<vulkan, backend_initialized, gen, peer, kv, thr>>

\* the branch without its llama_free_model call
InitEmbeddingCtxFailed_Leak(ms, k) == ms

\* ctx == nullptr branch of initEmbeddingModel
InitEmbeddingCtxFailed(ms, k) == Release(ms, k)

\* initEmbeddingModel(modelPath, contextSize, threads): the backend is
\* initialised only while the function-local static flag is false
InitEmbeddingModel(loadOk, ctxOk, a) ==
    /\ CanCreate
    /\ heap[a].state # "live"
    /\ IF ~backend_initialized
       THEN /\ BackendInit
            /\ backend_initialized' = TRUE
       ELSE UNCHANGED <<backendInits, backendUp, backend_initialized>>
    /\ nCreates' = nCreates + 1
    /\ LET k == nCreates + 1
           c == [IdleCall EXCEPT !.op = "initEmbeddingModel", !.pc = "done",
                                 !.k = k, !.loads = 1, !.load1Ok = loadOk,
                                 !.ctxOk = loadOk /\ ctxOk]
       IN IF ~loadOk
          THEN /\ call' = c
               /\ UNCHANGED <<models, ctxs, heap>>
          ELSE IF ~ctxOk
          THEN /\ models' = InitEmbeddingCtxFailed(LoadModel(models, k), k)
               /\ call' = c
               /\ UNCHANGED <<ctxs, heap>>
          ELSE /\ models' = LoadModel(models, k)
               /\ ctxs' = LoadModel(ctxs, k)
               /\ heap' = NewWrapper(a, "emb", k, FALSE, 0)
               /\ call' = [c EXCEPT !.ret = a]
    /\ UNCHANGED <<vulkan, gen, peer, kv, thr>>

\* isUsingGpu(modelHandle) / getGpuLayers(modelHandle)
IsUsingGpu(h) == IF h = 0 THEN FALSE ELSE heap[h].using_gpu
GetGpuLayers(h) == IF h = 0 THEN 0 ELSE heap[h].gpu_layers

\* ------------------------------------------------------------------- free
\* freeModel / freeEmbeddingModel entry: the only check is modelHandle == 0.
\* A handle whose wrapper was already deleted is dereferenced all the same.
FreeEntry(op, h) ==
    /\ CallIdle
    /\ IF h = 0
       THEN call' = [IdleCall EXCEPT !.op = op, !.pc = "done"]
       ELSE /\ heap[h].state \in {"live", "freed"}
            /\ heap[h].kind = (IF op = "freeModel" THEN "gen" ELSE "emb")
            /\ call' = [IdleCall EXCEPT !.op = op, !.pc = "free_ctx",
                                        !.handle = h, !.k = heap[h].k,
                                        !.stale = (heap[h].state = "freed")]
    /\ UNCHANGED <<vulkan, backendInits, backendUp, backend_initialized, heap,
                   models, ctxs, nCreates, gen, peer, kv, thr>>

FreeModelEntry(h) == FreeEntry("freeModel", h)
FreeEmbeddingModelEntry(h) == FreeEntry("freeEmbeddingModel", h)

\* freeModel without its llama_free call
ReleaseCtx_Skipped(cs, k) == cs

\* if (wrapper->ctx) llama_free(wrapper->ctx);
ReleaseCtx(cs, k) == Release(cs, k)

\* if (wrapper->model) llama_free_model(wrapper->model);
ReleaseModel(ms, k) == Release(ms, k)

\* A live wrapper always holds a non-null ctx. Reading the field of a deleted
\* wrapper is undefined: the pointer read may be the old one or null.
FreeCtx(nonNull) ==
    /\ call.pc = "free_ctx"
    /\ ~call.stale => nonNull
    /\ ctxs' = IF nonNull THEN ReleaseCtx(ctxs, call.k) ELSE ctxs
    /\ call' = [call EXCEPT !.pc = "free_model", !.uaf = call.stale]
    /\ UNCHANGED <<vulkan, backendInits, backendUp, backend_initialized, heap,
                   models, nCreates, gen, peer, kv, thr>>

FreeModel(nonNull) ==
    /\ call.pc = "free_model"
    /\ ~call.stale => nonNull
    /\ models' = IF nonNull THEN ReleaseModel(models, call.k) ELSE models
    /\ call' = [call EXCEPT !.pc = "delete"]
    /\ UNCHANGED <<vulkan, backendInits, backendUp, backend_initialized, heap,
                   ctxs, nCreates, gen, peer, kv, thr>>

\* delete wrapper;  freeModel goes on to llama_backend_free()
DeleteWrapper ==
    /\ call.pc = "delete"
    /\ LET w == heap[call.handle]
       IN heap' = [heap EXCEPT ![call.handle] =
                      [NoWrapper EXCEPT !.state = "freed", !.kind = w.kind,
                                        !.k = w.k, !.dels = w.dels + 1]]
    /\ call' = [call EXCEPT !.pc = IF call.op = "freeModel"
                                   THEN "backend_free" ELSE "done"]
    /\ UNCHANGED <<vulkan, backendInits, backendUp, backend_initialized,
                   models, ctxs, nCreates, gen, peer, kv, thr>>

BackendFree ==
    /\ call.pc = "backend_free"
    /\ backendUp' = FALSE
    /\ call' = [call EXCEPT !.pc = "done"]
    /\ UNCHANGED <<vulkan, backendInits, backend_initialized, heap, models,
                   ctxs, nCreates, gen, peer, kv, thr>>

\* ------------------------------------------------------------- generation
\* Text is a sequence of bytes; NUL is the zero byte.
NUL == "NUL"
Marker == <<"<", "|", "i", "m", "_", "e", "n", "d", "|", ">">>
NPOS == 0

\* std::string::find: first position (from 1) of m in s, NPOS when absent
Find(s, m) ==
    LET hits == {i \in 1..(Len(s) - Len(m) + 1) : SubSeq(s, i, i + Len(m) - 1) = m}
    IN IF hits = {} THEN NPOS
       ELSE CHOOSE i \in hits : \A j \in hits : i <= j

\* result.substr(0, pos) for a position counted from 1
SubstrBefore(s, pos) == SubSeq(s, 1, pos - 1)

\* env->NewStringUTF(s.c_str()): the C string ends at the first zero byte
NewStringUTF(s) ==
    LET z == {i \in 1..Len(s) : s[i] = NUL}
    IN IF z = {} THEN s
       ELSE SubSeq(s, 1, (CHOOSE i \in z : \A j \in z : i <= j) - 1)

\* The vocabulary of the loaded model, as llama_vocab_is_eog and
\* llama_token_to_piece see it: token 0 ends generation, token 5 has no text
\* (n_piece <= 0), token 3 is the byte token <0x00>.
Tokens == 0..6
llama_vocab_is_eog(t) == t = 0
llama_token_to_piece(t) ==
    CASE t = 1 -> <<"<", "|", "i", "m">>
      [] t = 2 -> <<"_", "e", "n", "d", "|", ">">>
      [] t = 3 -> <<NUL>>
      [] t = 4 -> <<"a">>
      [] t = 6 -> Marker \o <<"a">>
      [] OTHER -> <<>>

IdleGen ==
    [op |-> "none", pc |-> "idle", handle |-> 0, maxTokens |-> 0,
     n_generated |-> 0, new_token |-> 0, result |-> <<>>, events |-> <<>>,
     ret |-> <<>>, smplInits |-> 0, smplFrees |-> 0, nTokenize |-> 0,
     nMemClear |-> 0, nDecode |-> 0, nSample |-> 0, exit |-> "none",
     prompt |-> <<>>, drawn |-> <<>>, nGetSeq |-> 0, nGetCtx |-> 0,
     vec |-> "none", outs |-> <<>>, history |-> FALSE]

OnToken(text) == [type |-> "onToken", text |-> text]
OnComplete == [type |-> "onComplete", text |-> <<>>]
OnError == [type |-> "onError", text |-> <<>>]

GenIdle(g) == g.pc \in {"idle", "done"}

\* generate: modelHandle == 0 returns "" at once
GenerateEntry(h, maxTok) ==
    LET g == [IdleGen EXCEPT !.op = "generate", !.handle = h,
                             !.maxTokens = maxTok]
    IN IF h = 0
       THEN [g EXCEPT !.pc = "done", !.exit = "handle0"]
       ELSE [g EXCEPT !.pc = "tokenize"]

\* generateStream: modelHandle == 0 returns at once, and so does a callback
\* object on which GetMethodID fails; neither path calls the sink
StreamEntry(h, maxTok, methodsOk) ==
    LET g == [IdleGen EXCEPT !.op = "stream", !.handle = h,
                             !.maxTokens = maxTok]
    IN IF h = 0
       THEN [g EXCEPT !.pc = "done", !.exit = "handle0"]
       ELSE IF ~methodsOk
       THEN [g EXCEPT !.pc = "done", !.exit = "nomethods"]
       ELSE [g EXCEPT !.pc = "tokenize"]

\* llama_tokenize; n_tokens < 0 is a failure
GenerateTokenize(g, ok) ==
    IF ok
    THEN [g EXCEPT !.nTokenize = @ + 1, !.pc = "sampler_init"]
    ELSE [g EXCEPT !.nTokenize = @ + 1, !.pc = "done", !.exit = "tokenize"]

\* the failure branch without its return
StreamTokenize_NoReturn(g, ok) ==
    IF ok
    THEN [g EXCEPT !.nTokenize = @ + 1, !.pc = "sampler_init"]
    ELSE [g EXCEPT !.nTokenize = @ + 1, !.pc = "sampler_init",
                   !.events = Append(@, OnError)]

StreamTokenize(g, ok) ==
    IF ok
    THEN [g EXCEPT !.nTokenize = @ + 1, !.pc = "sampler_init"]
    ELSE [g EXCEPT !.nTokenize = @ + 1, !.pc = "done", !.exit = "tokenize",
                   !.events = Append(@, OnError)]

\* llama_sampler_chain_init and the five llama_sampler_chain_add calls
SamplerInit(g) == [g EXCEPT !.smplInits = @ + 1, !.pc = "memory_clear"]

\* llama_memory_clear(llama_get_memory(ctx), true)
MemoryClear(g) == [g EXCEPT !.nMemClear = @ + 1, !.pc = "decode_prompt"]

\* llama_decode of the prompt batch
GenerateDecodePrompt(g, ok) ==
    IF ok
    THEN [g EXCEPT !.nDecode = @ + 1, !.pc = "loop"]
    ELSE [g EXCEPT !.nDecode = @ + 1, !.smplFrees = @ + 1, !.pc = "done",
                   !.exit = "prompt_decode"]

\* the failure branch without its llama_sampler_free call
StreamDecodePrompt_NoFree(g, ok) ==
    IF ok
    THEN [g EXCEPT !.nDecode = @ + 1, !.pc = "loop"]
    ELSE [g EXCEPT !.nDecode = @ + 1, !.pc = "done",
                   !.exit = "prompt_decode", !.events = Append(@, OnError)]

StreamDecodePrompt(g, ok) ==
    IF ok
    THEN [g EXCEPT !.nDecode = @ + 1, !.pc = "loop"]
    ELSE [g EXCEPT !.nDecode = @ + 1, !.smplFrees = @ + 1, !.pc = "done",
                   !.exit = "prompt_decode", !.events = Append(@, OnError)]

\* the loop of generate with the test n_generated <= maxTokens
GenerateSample_OffByOne(g, tok) ==
    IF ~(g.n_generated <= g.maxTokens)
    THEN [g EXCEPT !.pc = "finish", !.exit = "max"]
    ELSE LET s == [g EXCEPT !.nSample = @ + 1, !.new_token = tok,
                            !.drawn = Append(@, tok)]
             piece == llama_token_to_piece(tok)
             appended == g.result \o piece
         IN IF llama_vocab_is_eog(tok)
            THEN [s EXCEPT !.pc = "finish", !.exit = "eog"]
            ELSE IF Len(piece) > 0
            THEN IF Find(appended, Marker) # NPOS
                 THEN [s EXCEPT !.result = SubstrBefore(appended,
                                                        Find(appended, Marker)),
                                !.pc = "finish", !.exit = "marker"]
                 ELSE [s EXCEPT !.result = appended, !.pc = "decode_token"]
            ELSE [s EXCEPT !.pc = "decode_token"]

\* One pass of the while loop of generate up to the single-token decode:
\* loop test, llama_sampler_sample, end-of-generation test, piece append and
\* stop-marker test. tok is the token the sampler draws.
GenerateSample(g, tok) ==
    IF ~(g.n_generated < g.maxTokens)
    THEN [g EXCEPT !.pc = "finish", !.exit = "max"]
    ELSE LET s == [g EXCEPT !.nSample = @ + 1, !.new_token = tok,
                            !.drawn = Append(@, tok)]
             piece == llama_token_to_piece(tok)
             appended == g.result \o piece
         IN IF llama_vocab_is_eog(tok)
            THEN [s EXCEPT !.pc = "finish", !.exit = "eog"]
            ELSE IF Len(piece) > 0
            THEN IF Find(appended, Marker) # NPOS
                 THEN [s EXCEPT !.result = SubstrBefore(appended,
                                                        Find(appended, Marker)),
                                !.pc = "finish", !.exit = "marker"]
                 ELSE [s EXCEPT !.result = appended, !.pc = "decode_token"]
            ELSE [s EXCEPT !.pc = "decode_token"]

\* the pass of generateStream without its onToken call
StreamSample_NoEmit(g, tok) ==
    IF ~(g.n_generated < g.maxTokens)
    THEN [g EXCEPT !.pc = "finish", !.exit = "max"]
    ELSE LET s == [g EXCEPT !.nSample = @ + 1, !.new_token = tok,
                            !.drawn = Append(@, tok)]
             tokenStr == llama_token_to_piece(tok)
             appended == g.result \o tokenStr
         IN IF llama_vocab_is_eog(tok)
            THEN [s EXCEPT !.pc = "finish", !.exit = "eog"]
            ELSE IF Len(tokenStr) > 0
            THEN IF Find(appended, Marker) # NPOS
                 THEN [s EXCEPT !.result = appended, !.pc = "finish",
                                !.exit = "marker"]
                 ELSE [s EXCEPT !.result = appended, !.pc = "decode_token"]
            ELSE [s EXCEPT !.pc = "decode_token"]

\* The same pass of generateStream: the marker is not cut out of result, and
\* the piece goes to onToken only when the marker is not complete
StreamSample(g, tok) ==
    IF ~(g.n_generated < g.maxTokens)
    THEN [g EXCEPT !.pc = "finish", !.exit = "max"]
    ELSE LET s == [g EXCEPT !.nSample = @ + 1, !.new_token = tok,
                            !.drawn = Append(@, tok)]
             tokenStr == llama_token_to_piece(tok)
             appended == g.result \o tokenStr
         IN IF llama_vocab_is_eog(tok)
            THEN [s EXCEPT !.pc = "finish", !.exit = "eog"]
            ELSE IF Len(tokenStr) > 0
            THEN IF Find(appended, Marker) # NPOS
                 THEN [s EXCEPT !.result = appended, !.pc = "finish",
                                !.exit = "marker"]
                 ELSE [s EXCEPT !.result = appended, !.pc = "decode_token",
                                !.events = Append(@, OnToken(NewStringUTF(tokenStr)))]
            ELSE [s EXCEPT !.pc = "decode_token"]

\* the single-token decode without n_generated++
DecodeToken_NoCount(g, ok) ==
    IF ok
    THEN [g EXCEPT !.nDecode = @ + 1, !.pc = "loop"]
    ELSE [g EXCEPT !.nDecode = @ + 1, !.pc = "finish", !.exit = "decode"]

\* llama_decode of the drawn token, then n_generated++
DecodeToken(g, ok) ==
    IF ok
    THEN [g EXCEPT !.nDecode = @ + 1, !.n_generated = @ + 1, !.pc = "loop"]
    ELSE [g EXCEPT !.nDecode = @ + 1, !.pc = "finish", !.exit = "decode"]

\* after the loop: llama_sampler_free, then the result is handed over
GenerateFinish(g) ==
    [g EXCEPT !.smplFrees = @ + 1, !.ret = NewStringUTF(g.result),
              !.pc = "done"]

StreamFinish(g) ==
    [g EXCEPT !.smplFrees = @ + 1, !.events = Append(@, OnComplete),
              !.pc = "done"]

\* handles a caller may pass to generate / generateStream
GenHandles == {0} \cup {a \in Addr : heap[a].state = "live" /\ heap[a].kind = "gen"}
MaxTokensInputs == (-1)..MaxTokens

\* the context a handle's wrapper points to
CtxOf(h) == heap[h].k

\* earlier calls left tokens in the memory of the handle's context
HasHistory(h) == h # 0 /\ kv[CtxOf(h)] # <<>>

\* the memory clear left out
llama_memory_clear_Skipped(kvs, k) == kvs

\* llama_memory_clear(llama_get_memory(ctx), true)
llama_memory_clear(kvs, k) == [kvs EXCEPT ![k] = <<>>]

\* llama_decode(ctx, batch): a successful decode adds the batch to the
\* context's memory
llama_decode(kvs, k, batch, ok) ==
    IF ok THEN [kvs EXCEPT ![k] = @ \o batch] ELSE kvs

Generate(h, maxTok, p) ==
    /\ GenIdle(gen)
    /\ h \in GenHandles
    /\ gen' = [GenerateEntry(h, maxTok) EXCEPT !.prompt = p,
                                               !.history = HasHistory(h)]
    /\ UNCHANGED <<lifeVars, peer, kv, thr>>

GenerateStream(h, maxTok, p, methodsOk) ==
    /\ GenIdle(gen)
    /\ h \in GenHandles
    /\ gen' = [StreamEntry(h, maxTok, methodsOk) EXCEPT
                  !.prompt = p, !.history = HasHistory(h)]
    /\ UNCHANGED <<lifeVars, peer, kv, thr>>

Tokenize(ok) ==
    /\ gen.pc = "tokenize"
    /\ gen' = IF gen.op = "generate" THEN GenerateTokenize(gen, ok)
              ELSE StreamTokenize(gen, ok)
    /\ UNCHANGED <<lifeVars, peer, kv, thr>>

SamplerChainInit ==
    /\ gen.pc = "sampler_init"
    /\ gen' = SamplerInit(gen)
    /\ UNCHANGED <<lifeVars, peer, kv, thr>>

ClearMemory ==
    /\ gen.pc = "memory_clear"
    /\ gen' = MemoryClear(gen)
    /\ kv' = llama_memory_clear(kv, CtxOf(gen.handle))
    /\ UNCHANGED <<lifeVars, peer, thr>>

DecodePrompt(ok) ==
    /\ gen.pc = "decode_prompt"
    /\ gen' = IF gen.op = "generate" THEN GenerateDecodePrompt(gen, ok)
              ELSE StreamDecodePrompt(gen, ok)
    /\ kv' = llama_decode(kv, CtxOf(gen.handle), gen.prompt, ok)
    /\ UNCHANGED <<lifeVars, peer, thr>>

Sample(tok) ==
    /\ gen.pc = "loop"
    /\ gen' = IF gen.op = "generate" THEN GenerateSample(gen, tok)
              ELSE StreamSample(gen, tok)
    /\ UNCHANGED <<lifeVars, peer, kv, thr>>

DecodeOne(ok) ==
    /\ gen.pc = "decode_token"
    /\ gen' = DecodeToken(gen, ok)
    /\ kv' = llama_decode(kv, CtxOf(gen.handle), <<gen.new_token>>, ok)
    /\ UNCHANGED <<lifeVars, peer, thr>>

Finish ==
    /\ gen.pc = "finish"
    /\ gen' = IF gen.op = "generate" THEN GenerateFinish(gen)
              ELSE StreamFinish(gen)
    /\ UNCHANGED <<lifeVars, peer, kv, thr>>

\* ---------------------------------------------------------------- embedding
\* getEmbedding: modelHandle == 0 returns nullptr at once
EmbedEntry(h) ==
    LET g == [IdleGen EXCEPT !.op = "embed", !.handle = h]
    IN IF h = 0
       THEN [g EXCEPT !.pc = "done", !.exit = "handle0"]
       ELSE [g EXCEPT !.pc = "e_tokenize"]

\* llama_tokenize; n_tokens < 0 returns nullptr. outs keeps the outcome of
\* every library call of the embed call, in order.
EmbedTokenize(g, ok) ==
    IF ok
    THEN [g EXCEPT !.nTokenize = @ + 1, !.outs = Append(@, "tokenize+"),
                   !.pc = "e_memory_clear"]
    ELSE [g EXCEPT !.nTokenize = @ + 1, !.outs = Append(@, "tokenize-"),
                   !.pc = "done", !.exit = "embed_tokenize"]

EmbedMemoryClear(g) == [g EXCEPT !.nMemClear = @ + 1, !.pc = "e_decode"]

\* llama_decode of the whole text as one batch; failure returns nullptr
EmbedDecode(g, ok) ==
    IF ok
    THEN [g EXCEPT !.nDecode = @ + 1, !.outs = Append(@, "decode+"),
                   !.pc = "e_get"]
    ELSE [g EXCEPT !.nDecode = @ + 1, !.outs = Append(@, "decode-"),
                   !.pc = "done", !.exit = "embed_decode"]

\* the retrieval that asks for the context-wide embedding first
EmbedGet_CtxFirst(g, seqOk, allOk) ==
    IF allOk
    THEN [g EXCEPT !.nGetCtx = @ + 1, !.outs = Append(@, "all+"),
                   !.vec = "all", !.pc = "e_array"]
    ELSE IF seqOk
    THEN [g EXCEPT !.nGetCtx = @ + 1, !.nGetSeq = @ + 1,
                   !.outs = @ \o <<"all-", "seq+">>, !.vec = "seq",
                   !.pc = "e_array"]
    ELSE [g EXCEPT !.nGetCtx = @ + 1, !.nGetSeq = @ + 1,
                   !.outs = @ \o <<"all-", "seq-">>, !.pc = "done",
                   !.exit = "no_embeddings"]

\* llama_get_embeddings_seq(ctx, 0), then llama_get_embeddings(ctx) only when
\* the first returned nullptr; nullptr from both returns nullptr. seqOk / allOk
\* say whether each retrieval has a vector to give.
EmbedGet(g, seqOk, allOk) ==
    IF seqOk
    THEN [g EXCEPT !.nGetSeq = @ + 1, !.outs = Append(@, "seq+"),
                   !.vec = "seq", !.pc = "e_array"]
    ELSE IF allOk
    THEN [g EXCEPT !.nGetSeq = @ + 1, !.nGetCtx = @ + 1,
                   !.outs = @ \o <<"seq-", "all+">>, !.vec = "all",
                   !.pc = "e_array"]
    ELSE [g EXCEPT !.nGetSeq = @ + 1, !.nGetCtx = @ + 1,
                   !.outs = @ \o <<"seq-", "all-">>, !.pc = "done",
                   !.exit = "no_embeddings"]

\* NewFloatArray(n_embd); nullptr returns nullptr. Otherwise the vector is
\* normalised, copied into the array and returned. The numbers of the vector
\* are not followed: vec records which retrieval supplied it.
EmbedArray(g, ok) ==
    IF ok
    THEN [g EXCEPT !.outs = Append(@, "array+"), !.pc = "done",
                   !.exit = "ok"]
    ELSE [g EXCEPT !.outs = Append(@, "array-"), !.pc = "done",
                   !.exit = "array", !.vec = "none"]

\* what getEmbedding hands back: a float array, or nullptr
EmbedReturnsVector(g) == g.op = "embed" /\ g.pc = "done" /\ g.vec # "none"

EmbHandles == {0} \cup {a \in Addr : heap[a].state = "live" /\ heap[a].kind = "emb"}

GetEmbedding(h, p) ==
    /\ GenIdle(gen)
    /\ h \in EmbHandles
    /\ gen' = [EmbedEntry(h) EXCEPT !.prompt = p, !.history = HasHistory(h)]
    /\ UNCHANGED <<lifeVars, peer, kv, thr>>

EmbeddingTokenize(ok) ==
    /\ gen.pc = "e_tokenize"
    /\ gen' = EmbedTokenize(gen, ok)
    /\ UNCHANGED <<lifeVars, peer, kv, thr>>

EmbeddingClearMemory ==
    /\ gen.pc = "e_memory_clear"
    /\ gen' = EmbedMemoryClear(gen)
    /\ kv' = llama_memory_clear(kv, CtxOf(gen.handle))
    /\ UNCHANGED <<lifeVars, peer, thr>>

EmbeddingDecode(ok) ==
    /\ gen.pc = "e_decode"
    /\ gen' = EmbedDecode(gen, ok)
    /\ kv' = llama_decode(kv, CtxOf(gen.handle), gen.prompt, ok)
    /\ UNCHANGED <<lifeVars, peer, thr>>

EmbeddingGet(seqOk, allOk) ==
    /\ gen.pc = "e_get"
    /\ gen' = EmbedGet(gen, seqOk, allOk)
    /\ UNCHANGED <<lifeVars, peer, kv, thr>>

EmbeddingArray(ok) ==
    /\ gen.pc = "e_array"
    /\ gen' = EmbedArray(gen, ok)
    /\ UNCHANGED <<lifeVars, peer, kv, thr>>

\* ------------------------------------------------- lifecycle specification
Init ==
    /\ vulkan \in BOOLEAN
    /\ backendInits = 0
    /\ backendUp = FALSE
    /\ backend_initialized = FALSE
    /\ heap = [a \in Addr |-> NoWrapper]
    /\ models = [k \in Sessions |-> NoResource]
    /\ ctxs = [k \in Sessions |-> NoResource]
    /\ nCreates = 0
    /\ call = IdleCall
    /\ gen = IdleGen
    /\ peer = IdleGen
    /\ kv = [k \in Sessions |-> <<>>]
    /\ thr = [t \in Threads |-> IdleThread]

Next ==
    \/ \E loadOk, ctxOk \in BOOLEAN, a \in Addr : InitModel(loadOk, ctxOk, a)
    \/ \E useGpu, load1Ok, load2Ok, ctxOk \in BOOLEAN, gpuLayers \in GpuLayerInputs,
          a \in Addr :
          InitModelWithGpu(useGpu, gpuLayers, load1Ok, load2Ok, ctxOk, a)
    \/ \E loadOk, ctxOk \in BOOLEAN, a \in Addr :
          InitEmbeddingModel(loadOk, ctxOk, a)
    \/ \E h \in {0} \cup Addr : FreeModelEntry(h)
    \/ \E h \in {0} \cup Addr : FreeEmbeddingModelEntry(h)
    \/ \E nonNull \in BOOLEAN : FreeCtx(nonNull)
    \/ \E nonNull \in BOOLEAN : FreeModel(nonNull)
    \/ DeleteWrapper
    \/ BackendFree

Spec == Init /\ [][Next]_vars

\* ------------------------------------------------ generation specification
\* The state, in a build without Vulkan, after a successful initModel call and
\* a successful initEmbeddingModel call: a live CPU generation session at
\* address 1 and a live embedding session at address 2.
InitGen ==
    /\ vulkan = FALSE
    /\ backendInits = 2
    /\ backendUp = TRUE
    /\ backend_initialized = TRUE
    /\ heap = [a \in Addr |->
                 IF a \in {1, 2}
                 THEN [state |-> "live",
                       kind |-> IF a = 1 THEN "gen" ELSE "emb", k |-> a,
                       using_gpu |-> FALSE, gpu_layers |-> 0, dels |-> 0]
                 ELSE NoWrapper]
    /\ models = [k \in Sessions |-> IF k \in {1, 2}
                                    THEN [alloc |-> TRUE, rel |-> 0]
                                    ELSE NoResource]
    /\ ctxs = [k \in Sessions |-> IF k \in {1, 2}
                                  THEN [alloc |-> TRUE, rel |-> 0]
                                  ELSE NoResource]
    /\ nCreates = 2
    /\ call = [IdleCall EXCEPT !.op = "initEmbeddingModel", !.pc = "done",
                               !.k = 2, !.loads = 1, !.load1Ok = TRUE,
                               !.ctxOk = TRUE, !.ret = 2]
    /\ gen = IdleGen
    /\ peer = IdleGen
    /\ kv = [k \in Sessions |-> <<>>]
    /\ thr = [t \in Threads |-> IdleThread]

\* the steps of generate and generateStream
NextGenerate ==
    \/ \E h \in {0} \cup Addr, maxTok \in MaxTokensInputs, p \in Prompts :
          Generate(h, maxTok, p)
    \/ \E h \in {0} \cup Addr, maxTok \in MaxTokensInputs, p \in Prompts,
          methodsOk \in BOOLEAN :
          GenerateStream(h, maxTok, p, methodsOk)
    \/ \E ok \in BOOLEAN : Tokenize(ok)
    \/ SamplerChainInit
    \/ ClearMemory
    \/ \E ok \in BOOLEAN : DecodePrompt(ok)
    \/ \E tok \in Tokens : Sample(tok)
    \/ \E ok \in BOOLEAN : DecodeOne(ok)
    \/ Finish

\* the steps of getEmbedding
NextEmbedding ==
    \/ \E h \in {0} \cup Addr, p \in Prompts : GetEmbedding(h, p)
    \/ \E ok \in BOOLEAN : EmbeddingTokenize(ok)
    \/ EmbeddingClearMemory
    \/ \E ok \in BOOLEAN : EmbeddingDecode(ok)
    \/ \E seqOk, allOk \in BOOLEAN : EmbeddingGet(seqOk, allOk)
    \/ \E ok \in BOOLEAN : EmbeddingArray(ok)

NextGen == NextGenerate \/ NextEmbedding

SpecGen == InitGen /\ [][NextGen]_vars

\* Generation calls alone. A native call runs on its calling thread until it
\* returns: every step of it is eventually taken.
SpecGenFair == InitGen /\ [][NextGenerate]_vars /\ WF_vars(NextGenerate)

\* ------------------------------------------------------ pair specification
\* generate (gen) and generateStream (peer) run in lock-step on one handle
\* with the same maxTokens, the same tokenizer and decode outcomes and the
\* same drawn tokens.
PairStep ==
    \/ /\ GenIdle(gen)
       /\ \E h \in GenHandles, maxTok \in MaxTokensInputs, p \in Prompts :
             /\ gen' = [GenerateEntry(h, maxTok) EXCEPT !.prompt = p]
             /\ peer' = [StreamEntry(h, maxTok, TRUE) EXCEPT !.prompt = p]
    \/ /\ gen.pc = "tokenize"
       /\ \E ok \in BOOLEAN : /\ gen' = GenerateTokenize(gen, ok)
                              /\ peer' = StreamTokenize(peer, ok)
    \/ /\ gen.pc = "sampler_init"
       /\ gen' = SamplerInit(gen)
       /\ peer' = SamplerInit(peer)
    \/ /\ gen.pc = "memory_clear"
       /\ gen' = MemoryClear(gen)
       /\ peer' = MemoryClear(peer)
    \/ /\ gen.pc = "decode_prompt"
       /\ \E ok \in BOOLEAN : /\ gen' = GenerateDecodePrompt(gen, ok)
                              /\ peer' = StreamDecodePrompt(peer, ok)
    \/ /\ gen.pc = "loop"
       /\ \E tok \in Tokens : /\ gen' = GenerateSample(gen, tok)
                              /\ peer' = StreamSample(peer, tok)
    \/ /\ gen.pc = "decode_token"
       /\ \E ok \in BOOLEAN : /\ gen' = DecodeToken(gen, ok)
                              /\ peer' = DecodeToken(peer, ok)
    \/ /\ gen.pc = "finish"
       /\ gen' = GenerateFinish(gen)
       /\ peer' = StreamFinish(peer)

NextPair == PairStep /\ UNCHANGED <<lifeVars, kv, thr>>

SpecPair == InitGen /\ [][NextPair]_vars

\* ------------------------------------------------------ race specification
\* Two threads inside initEmbeddingModel. The function-local static flag is
\* a plain bool read and written without a lock, so the steps of the two
\* calls interleave: the read of the flag, llama_backend_init, the write of
\* the flag, and the rest of the call.
EmbThreadEnter(t) ==
    /\ thr[t].pc = "idle"
    /\ thr' = [thr EXCEPT ![t].pc = "check"]
    /\ UNCHANGED <<lifeVars, gen, peer, kv>>

\* if (!backend_initialized)
EmbThreadCheckFlag(t) ==
    /\ thr[t].pc = "check"
    /\ thr' = [thr EXCEPT ![t].pc = IF ~backend_initialized THEN "init"
                                    ELSE "load"]
    /\ UNCHANGED <<lifeVars, gen, peer, kv>>

\* llama_backend_init();
EmbThreadBackendInit(t) ==
    /\ thr[t].pc = "init"
    /\ BackendInit
    /\ thr' = [thr EXCEPT ![t].pc = "set", ![t].inited = TRUE]
    /\ UNCHANGED <<vulkan, backend_initialized, heap, models, ctxs, nCreates,
                   call, gen, peer, kv>>

\* backend_initialized = true;
EmbThreadSetFlag(t) ==
    /\ thr[t].pc = "set"
    /\ backend_initialized' = TRUE
    /\ thr' = [thr EXCEPT ![t].pc = "load"]
    /\ UNCHANGED <<vulkan, backendInits, backendUp, heap, models, ctxs,
                   nCreates, call, gen, peer, kv>>

\* the rest of the call: load the model, create the context, wrap and return
EmbThreadCreate(t, loadOk, ctxOk, a) ==
    /\ thr[t].pc = "load"
    /\ nCreates < MaxCreates
    /\ heap[a].state # "live"
    /\ nCreates' = nCreates + 1
    /\ LET k == nCreates + 1
       IN IF ~loadOk
          THEN /\ thr' = [thr EXCEPT ![t].pc = "done"]
               /\ UNCHANGED <<models, ctxs, heap>>
          ELSE IF ~ctxOk
          THEN /\ models' = InitEmbeddingCtxFailed(LoadModel(models, k), k)
               /\ thr' = [thr EXCEPT ![t].pc = "done"]
               /\ UNCHANGED <<ctxs, heap>>
          ELSE /\ models' = LoadModel(models, k)
               /\ ctxs' = LoadModel(ctxs, k)
               /\ heap' = NewWrapper(a, "emb", k, FALSE, 0)
               /\ thr' = [thr EXCEPT ![t].pc = "done", ![t].ret = a]
    /\ UNCHANGED <<vulkan, backendInits, backendUp, backend_initialized, call,
                   gen, peer, kv>>

NextRace ==
    \/ \E t \in Threads : EmbThreadEnter(t)
    \/ \E t \in Threads : EmbThreadCheckFlag(t)
    \/ \E t \in Threads : EmbThreadBackendInit(t)
    \/ \E t \in Threads : EmbThreadSetFlag(t)
    \/ \E t \in Threads, loadOk, ctxOk \in BOOLEAN, a \in Addr :
          EmbThreadCreate(t, loadOk, ctxOk, a)

SpecRace == Init /\ [][NextRace]_vars

\* ================================================================= claims
Terminals(events) ==
    {i \in 1..Len(events) : events[i].type \in {"onComplete", "onError"}}

RECURSIVE Delivered(_)
\* the concatenation of the fragments the sink received through onToken
Delivered(events) ==
    IF events = <<>> THEN <<>>
    ELSE IF Head(events).type = "onToken"
    THEN Head(events).text \o Delivered(Tail(events))
    ELSE Delivered(Tail(events))

\* whether the library call outcome o occurred in the call
InOuts(g, o) == \E i \in 1..Len(g.outs) : g.outs[i] = o

\* the drawn tokens whose fragment generateStream hands to onToken: all but
\* the one that ended the loop as end-of-generation or by completing the marker
StreamedTokens(g) ==
    IF g.exit \in {"eog", "marker"}
    THEN SubSeq(g.drawn, 1, Len(g.drawn) - 1)
    ELSE g.drawn

\* the onToken events of a token sequence: one per non-empty fragment
RECURSIVE Fragments(_)

Fragments(toks) ==
    IF toks = <<>>
    THEN <<>>
    ELSE LET piece == llama_token_to_piece(Head(toks))
         IN (IF Len(piece) > 0 THEN <<OnToken(NewStringUTF(piece))>> ELSE <<>>)
              \o Fragments(Tail(toks))

\* C1: every generateStream call that has returned delivered exactly one
\* terminal event (onComplete or onError) to the sink.
C1_ExactlyOneTerminal ==
    (gen.op = "stream" /\ gen.pc = "done")
        => Cardinality(Terminals(gen.events)) = 1

\* C2: no free call reads a wrapper that was already deleted, and the context
\* and the model of every session are released at most once.
C2_FreeIdempotent ==
    /\ ~call.uaf
    /\ \A k \in Sessions : models[k].rel <= 1 /\ ctxs[k].rel <= 1
    /\ \A a \in Addr : heap[a].dels <= 1

\* C3: llama_backend_init runs at most once over any sequence of creation
\* calls.
C3_BackendInitOnce == backendInits <= 1

\* C4: the text generate returns never contains the stop marker, and neither
\* does the concatenation of the fragments generateStream delivers.
C4_NoMarkerInOutput ==
    /\ (gen.op = "generate" /\ gen.pc = "done")
          => Find(gen.ret, Marker) = NPOS
    /\ gen.op = "stream" => Find(Delivered(gen.events), Marker) = NPOS

\* C5: on the same inputs, when the stop marker is never completed, the
\* fragments generateStream delivers concatenate to the text generate returns.
C5_StreamEqualsBlocking ==
    (gen.pc = "done" /\ peer.pc = "done" /\ gen.op = "generate"
     /\ peer.op = "stream" /\ gen.exit # "marker")
        => Delivered(peer.events) = gen.ret

\* C6: with handle 0, generate returns the empty text, generateStream emits
\* onError, and neither tokenizes, builds a sampler, clears memory or decodes.
C6_ZeroHandleFailsFast ==
    (gen.pc = "done" /\ gen.op # "none" /\ gen.handle = 0)
        => /\ gen.nTokenize = 0 /\ gen.smplInits = 0
           /\ gen.nMemClear = 0 /\ gen.nDecode = 0
           /\ gen.op = "generate" => gen.ret = <<>>
           /\ gen.op = "stream" => gen.events = <<OnError>>

\* C7: a generation call builds at most one sampler chain, never releases
\* more chains than it built, and has released the chain it built exactly once
\* when it returns, on every exit path.
C7_SamplerReleasedOnce ==
    /\ gen.smplInits <= 1
    /\ gen.smplFrees <= gen.smplInits
    /\ gen.pc = "done" => gen.smplFrees = gen.smplInits
    /\ (gen.pc = "done" /\ gen.exit \in {"prompt_decode", "eog", "marker",
                                         "decode", "max"})
          => gen.smplInits = 1

C7_Witness ==
    /\ gen.pc = "done" /\ gen.op = "stream" /\ gen.exit = "prompt_decode"
    /\ gen.smplInits = 1 /\ gen.smplFrees = 1

\* C8: a creation call that returns handle 0 leaves the sets of live models,
\* live contexts and live wrappers as they were; when the model load failed
\* no model was allocated, and when the context build failed the model that
\* was loaded has been released once.
C8_FailedCreateLeavesNothing ==
    [][(nCreates' = nCreates + 1 /\ call'.ret = 0)
         => /\ LiveModels' = LiveModels
            /\ LiveCtxs' = LiveCtxs
            /\ LiveHandles' = LiveHandles
            /\ ~ctxs'[call'.k].alloc
            /\ (~call'.load1Ok /\ ~call'.load2Ok) => ~models'[call'.k].alloc
            /\ models'[call'.k].alloc => models'[call'.k].rel = 1]_vars

C8_Witness ==
    /\ call.pc = "done" /\ call.op = "initEmbeddingModel" /\ call.ret = 0
    /\ call.load1Ok
    /\ models[call.k].alloc /\ models[call.k].rel = 1

\* C9: no context is live while its model is released; in a free of a live
\* handle the context is already released when the model is about to be, and
\* a wrapper is deleted only when both are released.
C9_ContextBeforeModel ==
    /\ \A k \in Sessions : IsLive(ctxs[k]) => IsLive(models[k])
    /\ (call.pc = "free_model" /\ ~call.stale)
          => ctxs[call.k].rel = 1 /\ IsLive(models[call.k])
    /\ (call.pc = "delete" /\ ~call.stale)
          => ctxs[call.k].rel = 1 /\ models[call.k].rel = 1
             /\ heap[call.handle].state = "live"
    /\ \A a \in Addr : heap[a].state = "freed"
          => ~IsLive(ctxs[heap[a].k]) /\ ~IsLive(models[heap[a].k])

C9_Witness ==
    /\ call.pc = "free_model" /\ ~call.stale
    /\ ctxs[call.k].rel = 1 /\ IsLive(models[call.k])

\* C10: initModelWithGpu loads a second time exactly when the first load
\* failed with a resolved layer count > 0; a session made by the retry reports
\* isUsingGpu = false and getGpuLayers = 0 and its handle is non-zero; no
\* creation call loads more than twice.
C10_CpuFallback ==
    /\ call.op \in CreateOps => call.loads \in {1, 2}
    /\ call.op \in {"initModel", "initEmbeddingModel"} => call.loads = 1
    /\ call.op = "initModelWithGpu"
          => /\ call.loads = 2 <=> (~call.load1Ok /\ call.resolved > 0)
             /\ (call.loads = 2 /\ call.ret # 0)
                   => ~IsUsingGpu(call.ret) /\ GetGpuLayers(call.ret) = 0
             /\ (call.loads = 2 /\ call.load2Ok /\ call.ctxOk) => call.ret # 0

C10_Witness ==
    /\ call.op = "initModelWithGpu" /\ call.pc = "done"
    /\ call.loads = 2 /\ call.ret # 0 /\ call.resolved = AllLayers

\* C11: with GPU requested and Vulkan compiled in, a negative gpuLayers
\* resolves to 99 and a non-negative one to itself; without Vulkan the
\* resolved count is 0 whatever was requested and the session reports
\* isUsingGpu = false.
C11_LayerResolution ==
    call.op = "initModelWithGpu"
      => /\ (call.useGpu /\ vulkan /\ call.gpuLayers < 0)
               => call.resolved = 99
         /\ (call.useGpu /\ vulkan /\ call.gpuLayers >= 0)
               => call.resolved = call.gpuLayers
         /\ ~vulkan
               => /\ call.resolved = 0
                  /\ call.loads = 1
                  /\ call.ret # 0 => /\ ~IsUsingGpu(call.ret)
                                     /\ GetGpuLayers(call.ret) = 0

C11_Witness ==
    /\ call.op = "initModelWithGpu" /\ call.pc = "done"
    /\ call.useGpu /\ vulkan /\ call.gpuLayers < 0
    /\ call.load1Ok /\ call.ret # 0
    /\ IsUsingGpu(call.ret) /\ GetGpuLayers(call.ret) = 99

\* C12: generate with a live handle and maxTokens <= 0 draws no token,
\* decodes nothing but the prompt batch and returns the empty string.
C12_NonPositiveMaxTokens ==
    (gen.op = "generate" /\ gen.handle # 0 /\ gen.maxTokens <= 0)
        => /\ gen.nSample = 0
           /\ gen.nDecode <= 1
           /\ gen.result = <<>>
           /\ gen.pc = "done" => gen.ret = <<>>

C12_Witness ==
    /\ gen.op = "generate" /\ gen.pc = "done" /\ gen.handle # 0
    /\ gen.maxTokens <= 0 /\ gen.exit = "max"
    /\ gen.nDecode = 1 /\ gen.ret = <<>>

\* C13: a creation call never returns the handle of a live session, and a
\* handle that was freed is never the handle of a live session again.
C13_HandleNeverReused ==
    [][/\ \A a \in Addr :
             heap[a].state = "freed" => heap'[a].state # "live"
       /\ (nCreates' = nCreates + 1 /\ call'.ret # 0)
             => heap[call'.ret].state # "live"]_vars

\* C14: when the decode of a drawn token fails, generate returns the text
\* accumulated so far, the failed token's fragment included, and
\* generateStream emits no onError and ends with onComplete.
C14_DecodeFailureKeepsText ==
    (gen.op \in {"generate", "stream"} /\ gen.pc = "done" /\ gen.exit = "decode")
      => LET piece == llama_token_to_piece(gen.new_token)
             n == Len(gen.result)
         IN /\ SubSeq(gen.result, n - Len(piece) + 1, n) = piece
            /\ gen.op = "generate" => gen.ret = gen.result
            /\ gen.op = "stream"
                 => /\ \A i \in 1..Len(gen.events) :
                          gen.events[i].type # "onError"
                    /\ Len(gen.events) > 0
                    /\ gen.events[Len(gen.events)] = OnComplete

\* C15: a generateStream call that emits onError emits nothing else, does so
\* only on a tokenization or prompt-decode failure and before any token is
\* drawn; after a tokenization failure nothing is sampled or decoded.
C15_ErrorOnlyBeforeTokens ==
    gen.op = "stream"
      => /\ (\E i \in 1..Len(gen.events) : gen.events[i].type = "onError")
               => /\ gen.events = <<OnError>>
                  /\ gen.pc = "done"
                  /\ gen.exit \in {"tokenize", "prompt_decode"}
                  /\ gen.nSample = 0
         /\ gen.exit = "tokenize"
               => /\ gen.events = <<OnError>>
                  /\ gen.nSample = 0 /\ gen.nDecode = 0 /\ gen.smplInits = 0
         /\ gen.exit = "prompt_decode" => gen.events = <<OnError>>

C15_Witness ==
    /\ gen.op = "stream" /\ gen.pc = "done" /\ gen.exit = "tokenize"
    /\ gen.events = <<OnError>> /\ gen.nTokenize = 1

\* C16: two threads inside initEmbeddingModel at the same time initialise the
\* backend at most once between them.
C16_RaceInitOnce == Cardinality({t \in Threads : thr[t].inited}) <= 1

\* C17 as stated: getEmbedding asks for the sequence embedding first and for
\* the context-wide one only when the first is unavailable, and it fails
\* exactly when the handle is zero, tokenization fails, the decode fails or
\* both embeddings are unavailable.
C17_EmbedFailsExactlyWhen ==
    (gen.op = "embed" /\ gen.pc = "done")
      => /\ gen.nGetCtx > 0 => InOuts(gen, "seq-")
         /\ ~EmbedReturnsVector(gen)
              <=> \/ gen.handle = 0
                  \/ InOuts(gen, "tokenize-")
                  \/ InOuts(gen, "decode-")
                  \/ InOuts(gen, "seq-") /\ InOuts(gen, "all-")

\* C17 amended: the same, with the failure to allocate the result array as a
\* fifth cause of failure.
C17_EmbedFailsExactlyWhenOrNoArray ==
    gen.op = "embed"
      => /\ gen.nGetCtx > 0 => InOuts(gen, "seq-")
         /\ gen.nGetCtx <= gen.nGetSeq /\ gen.nGetSeq <= 1
         /\ gen.vec = "all" => InOuts(gen, "seq-") /\ InOuts(gen, "all+")
         /\ gen.vec = "seq" => InOuts(gen, "seq+") /\ gen.nGetCtx = 0
         /\ gen.pc = "done"
              => (~EmbedReturnsVector(gen)
                    <=> \/ gen.handle = 0
                        \/ InOuts(gen, "tokenize-")
                        \/ InOuts(gen, "decode-")
                        \/ InOuts(gen, "seq-") /\ InOuts(gen, "all-")
                        \/ InOuts(gen, "array-"))

C17_Witness ==
    /\ EmbedReturnsVector(gen) /\ gen.vec = "all"
    /\ gen.outs = <<"tokenize+", "decode+", "seq-", "all+", "array+">>

\* C18: in generateStream every fragment is handed to onToken before the
\* decode of its token begins, fragments arrive in the order the tokens were
\* drawn, the terminal callback comes after the last fragment and nothing
\* follows it.
C18_TokenBeforeDecodeInOrder ==
    gen.op = "stream"
      => LET ev == gen.events
             n == Len(ev)
             hasTerminal == n > 0 /\ ev[n].type # "onToken"
             body == IF hasTerminal THEN SubSeq(ev, 1, n - 1) ELSE ev
             piece == llama_token_to_piece(gen.new_token)
         IN /\ body = Fragments(StreamedTokens(gen))
            /\ hasTerminal => gen.pc = "done"
            /\ gen.pc = "decode_token"
                 => /\ Len(piece) > 0
                         => n > 0 /\ ev[n] = OnToken(NewStringUTF(piece))
                    /\ kv[CtxOf(gen.handle)]
                         = gen.prompt \o SubSeq(gen.drawn, 1, Len(gen.drawn) - 1)

C18_Witness ==
    /\ gen.op = "stream" /\ gen.pc = "done" /\ gen.exit = "max"
    /\ Len(gen.events) = 3
    /\ gen.events[1].type = "onToken" /\ gen.events[2].type = "onToken"
    /\ gen.events[1] # gen.events[2]
    /\ gen.events[3] = OnComplete

\* C19: generate, generateStream and getEmbedding clear the context memory
\* once, after tokenization succeeded and before anything is decoded, so the
\* history the first draw (or the embedding retrieval) sees holds the tokens
\* of the current call only.
C19_MemoryClearedPerCall ==
    gen.op \in {"generate", "stream", "embed"}
      => /\ gen.nMemClear <= 1
         /\ gen.nMemClear = 1
              => /\ gen.nTokenize = 1
                 /\ gen.exit \notin {"tokenize", "embed_tokenize"}
         /\ gen.nDecode > 0 => gen.nMemClear = 1
         /\ gen.pc = "loop" => kv[CtxOf(gen.handle)] = gen.prompt \o gen.drawn
         /\ gen.pc = "e_get" => kv[CtxOf(gen.handle)] = gen.prompt

C19_Witness ==
    /\ gen.op = "generate" /\ gen.pc = "loop" /\ gen.nSample = 0
    /\ gen.history
    /\ kv[CtxOf(gen.handle)] = gen.prompt

\* C20: the generation loop draws at most maxTokens tokens, every pass either
\* leaves the loop or raises the counter by one, an end-of-generation token is
\* neither appended, emitted nor decoded, and the loop always comes to an end.
C20_LoopTerminates ==
    /\ [](gen.op \in {"generate", "stream"}
            => /\ gen.nSample <= (IF gen.maxTokens > 0 THEN gen.maxTokens ELSE 0)
               /\ gen.n_generated <= gen.nSample
               /\ gen.nSample <= gen.n_generated + 1
               /\ Len(gen.events) <= gen.nSample + 1
               /\ gen.exit = "eog"
                    => /\ llama_vocab_is_eog(gen.new_token)
                       /\ kv[CtxOf(gen.handle)]
                            = gen.prompt
                                \o SubSeq(gen.drawn, 1, Len(gen.drawn) - 1)
                       /\ gen.nDecode = gen.nSample)
    /\ [][/\ (gen.pc = "loop" /\ gen'.exit = "eog")
               => /\ gen'.result = gen.result
                  /\ gen'.events = gen.events
                  /\ gen'.pc = "finish"
                  /\ kv' = kv
          /\ gen.pc = "loop" => gen'.pc \in {"finish", "decode_token"}
          /\ gen.pc = "decode_token"
               => \/ gen'.pc = "finish"
                  \/ /\ gen'.pc = "loop"
                     /\ gen'.n_generated = gen.n_generated + 1]_vars
    /\ (gen.pc = "loop") ~> (gen.pc = "done")

C20_Witness ==
    /\ gen.op = "stream" /\ gen.pc = "done" /\ gen.exit = "eog"
    /\ gen.nSample = 2 /\ gen.nDecode = 2
    /\ Len(gen.events) = 2

\* C21: whenever a session of either kind is live the backend is initialised.
C21_BackendUpWhileLive == LiveHandles # {} => backendUp

\* C22: a live generation session reports isUsingGpu exactly when its
\* getGpuLayers is positive; a session from initModel or from initModelWithGpu
\* with useGpu = false reports false and 0; handle 0 reports false and 0.
C22_UsingGpuIffLayers ==
    /\ \A a \in Addr :
          (heap[a].state = "live" /\ heap[a].kind = "gen")
             => (IsUsingGpu(a) <=> GetGpuLayers(a) > 0)
    /\ (call.pc = "done" /\ call.ret # 0
          /\ \/ call.op = "initModel"
             \/ call.op = "initModelWithGpu" /\ ~call.useGpu)
         => ~IsUsingGpu(call.ret) /\ GetGpuLayers(call.ret) = 0
    /\ ~IsUsingGpu(0) /\ GetGpuLayers(0) = 0

C22_Witness ==
    /\ call.op = "initModelWithGpu" /\ call.pc = "done" /\ call.ret # 0
    /\ call.useGpu /\ vulkan /\ call.gpuLayers = 0
    /\ ~IsUsingGpu(call.ret) /\ GetGpuLayers(call.ret) = 0
    /\ \E a \in Addr : /\ heap[a].state = "live" /\ heap[a].kind = "gen"
                       /\ IsUsingGpu(a) /\ GetGpuLayers(a) > 0

====
